---- MODULE Spec2Model ----
(***************************************************************************)
(* Model of source/winAPI/secureDesktop.py (NVDA): the secure-desktop      *)
(* predicate _isSecureDesktop, the transition handler                      *)
(* _handleSecureDesktopChange, the fake focus object                       *)
(* _SecureDesktopNVDAObject and the extension point                        *)
(* post_secureDesktopStateChange.                                          *)
(*                                                                         *)
(* The program is single threaded: the handler runs on a call stack, one   *)
(* frame per invocation, and only the top frame takes steps.  A nested     *)
(* invocation starts when a desktop-switch notification is dispatched      *)
(* while the focus-gained callback or an observer callback is running.     *)
(***************************************************************************)
EXTENDS Integers, Sequences, FiniteSets, TLC

\* ---------------------------------------------------------------- bounds
MaxInvocations == 2

\* ------------------------------------------------------- input universes
DesktopNames == {"Default", "Winlogon", "winlogon", ""}
Modifiers == {"shift", "control"}
Observers == {"obsA", "obsB"}

\* ------------------------------------------------------------- variables
VARIABLES
  desktopName,        \* what the OS reports as the input desktop's name
  pendingSwitch,      \* TRUE while a desktop-switch notification is queued
  currentModifiers,   \* keyboardHandler.currentModifiers
  focusObject,        \* the object api.getFocusObject() would return
  objects,            \* every NVDAObject built so far, indexed by identity
  speaking,           \* TRUE while the output subsystem is mid-utterance
  handlers,           \* post_secureDesktopStateChange's registered handlers
  stack,              \* call stack of _handleSecureDesktopChange frames
  invCount,           \* number of handler invocations started so far
  trace,              \* calls made to the collaborators, in order, since
                      \* the event loop last dispatched to the handler
  lastQuery           \* the latest call of _isSecureDesktop by another
                      \* part of the program; <<>> before the first call

vars == <<desktopName, pendingSwitch, currentModifiers, focusObject, objects,
          speaking, handlers, stack, invCount, trace, lastQuery>>

\* ------------------------------------------------------------ predicate
\* case folding, as a case-insensitive comparison would apply it
Lower(s) == IF s = "Winlogon" THEN "winlogon" ELSE s

_isSecureDesktop_caseInsensitive(name) == Lower(name) = "winlogon"

\* every desktop but the user's default one taken for the secure desktop
_isSecureDesktop_notDefault(name) == name # "Default"

\* return _getDesktopName() == "Winlogon"
_isSecureDesktop(name) == name = "Winlogon"

\* ---------------------------------------------------------------- objects
None == "None"

\* an ordinary object of a real window, owned by some process
RealObject ==
  [kind |-> "window", processID |-> "pid", sleepMode |-> "SLEEP_NONE",
   madeBy |-> 0]

_SecureDesktopNVDAObject_withPid(inv) ==
  [kind |-> "secureDesktop", processID |-> "pid", sleepMode |-> "SLEEP_NONE",
   madeBy |-> inv]

\* class _SecureDesktopNVDAObject(NVDAObject): processID = None
_SecureDesktopNVDAObject(inv) ==
  [kind |-> "secureDesktop", processID |-> None, sleepMode |-> "SLEEP_NONE",
   madeBy |-> inv]

\* ---------------------------------------------------------------- helpers
Event(inv, op, arg) == [inv |-> inv, op |-> op, arg |-> arg]

Top == stack[Len(stack)]

Idle == stack = <<>>

SetTop(f) == [stack EXCEPT ![Len(stack)] = f]

Pop == SubSeq(stack, 1, Len(stack) - 1)

At(p) == ~Idle /\ Top.pc = p

\* a frame of _handleSecureDesktopChange: where it is, its local
\* secureDesktopObject, the handlers notify still has to call, and what the
\* focus, the modifiers and the registrations were when it was called
Frame(inv) ==
  [inv |-> inv, pc |-> "clear", obj |-> 0, todo |-> <<>>,
   prevFocus |-> focusObject, entryModifiers |-> currentModifiers,
   entryHandlers |-> handlers]

\* api.setFocusObject(obj): obj becomes the focus object, and its
\* gained-focus behaviour runs before setFocusObject returns
api_setFocusObject(obj) == [focus |-> obj, next |-> "cancelSpeech"]

\* extensionPoints.Action.notify: the handlers called, in calling order
Action_notify(registered) == registered

\* ------------------------------------------------------------------ Init
Init ==
  /\ desktopName = "Default"
  /\ pendingSwitch = FALSE
  /\ currentModifiers = {}
  /\ objects = <<RealObject>>
  /\ focusObject = 1
  /\ speaking = FALSE
  /\ handlers = <<>>
  /\ stack = <<>>
  /\ invCount = 0
  /\ trace = <<>>
  /\ lastQuery = <<>>

\* ----------------------------------------------------------- environment
\* the OS switches the input desktop and raises EVENT_SYSTEM_DESKTOPSWITCH
DesktopSwitch ==
  /\ \E name \in DesktopNames \ {desktopName} : desktopName' = name
  /\ pendingSwitch' = TRUE
  /\ UNCHANGED <<currentModifiers, focusObject, objects, speaking, handlers,
                 stack, invCount, trace, lastQuery>>

\* a modifier key goes down
KeyDown ==
  /\ Idle
  /\ \E k \in Modifiers \ currentModifiers :
       currentModifiers' = currentModifiers \cup {k}
  /\ UNCHANGED <<desktopName, pendingSwitch, focusObject, objects, speaking,
                 handlers, stack, invCount, trace, lastQuery>>

\* a modifier key goes up
KeyUp ==
  /\ Idle
  /\ \E k \in currentModifiers : currentModifiers' = currentModifiers \ {k}
  /\ UNCHANGED <<desktopName, pendingSwitch, focusObject, objects, speaking,
                 handlers, stack, invCount, trace, lastQuery>>

\* the application starts speaking something
Speak ==
  /\ Idle
  /\ ~speaking
  /\ speaking' = TRUE
  /\ UNCHANGED <<desktopName, pendingSwitch, currentModifiers, focusObject,
                 objects, handlers, stack, invCount, trace, lastQuery>>

\* the utterance in progress ends
SpeechDone ==
  /\ Idle
  /\ speaking
  /\ speaking' = FALSE
  /\ UNCHANGED <<desktopName, pendingSwitch, currentModifiers, focusObject,
                 objects, handlers, stack, invCount, trace, lastQuery>>

\* an object of a real window takes the focus
FocusWindow ==
  /\ Idle
  /\ focusObject # 1
  /\ focusObject' = 1
  /\ UNCHANGED <<desktopName, pendingSwitch, currentModifiers, objects,
                 speaking, handlers, stack, invCount, trace, lastQuery>>

\* post_secureDesktopStateChange.register(handler)
Register ==
  /\ Idle
  /\ \E o \in Observers :
       /\ \A i \in 1..Len(handlers) : handlers[i] # o
       /\ handlers' = Append(handlers, o)
  /\ UNCHANGED <<desktopName, pendingSwitch, currentModifiers, focusObject,
                 objects, speaking, stack, invCount, trace, lastQuery>>

\* post_secureDesktopStateChange.unregister(handler)
Unregister ==
  /\ Idle
  /\ \E o \in Observers :
       /\ \E i \in 1..Len(handlers) : handlers[i] = o
       /\ handlers' = SelectSeq(handlers, LAMBDA h : h # o)
  /\ UNCHANGED <<desktopName, pendingSwitch, currentModifiers, focusObject,
                 objects, speaking, stack, invCount, trace, lastQuery>>

\* the first answer is kept and given again by every later call
IsSecureDesktopCall_cached ==
  /\ lastQuery' =
       <<[name |-> desktopName,
          result |-> IF lastQuery = <<>> THEN _isSecureDesktop(desktopName)
                     ELSE lastQuery[1].result]>>
  /\ UNCHANGED <<desktopName, pendingSwitch, currentModifiers, focusObject,
                 objects, speaking, handlers, stack, invCount, trace>>

\* some other part of the program calls _isSecureDesktop(); what is kept of
\* the call is the name the probe gave and the value returned
IsSecureDesktopCall ==
  /\ lastQuery' =
       <<[name |-> desktopName, result |-> _isSecureDesktop(desktopName)]>>
  /\ UNCHANGED <<desktopName, pendingSwitch, currentModifiers, focusObject,
                 objects, speaking, handlers, stack, invCount, trace>>

\* ------------------------------------------------------------ dispatcher
\* Code running on the main thread can be interrupted by the dispatch of a
\* further notification only where it calls out of this module: inside the
\* focus-gained callback and inside an observer callback.
CanDispatch == Idle \/ At("sleepMode") \/ At("inCallback")

\* a desktop-switch notification is dispatched; the desktop identity is
\* queried again and it is the secure desktop: the handler is invoked (a
\* dispatch from the event loop starts the record of calls afresh, a nested
\* one continues it)
DispatchSecure ==
  /\ pendingSwitch
  /\ CanDispatch
  /\ _isSecureDesktop(desktopName)
  /\ invCount < MaxInvocations
  /\ pendingSwitch' = FALSE
  /\ invCount' = invCount + 1
  /\ stack' = Append(stack, Frame(invCount + 1))
  /\ trace' = Append(IF Idle THEN <<>> ELSE trace,
                     Event(invCount + 1, "dispatch", desktopName))
  /\ UNCHANGED <<desktopName, currentModifiers, focusObject, objects,
                 speaking, handlers, lastQuery>>

\* a desktop-switch notification is dispatched and the desktop is not the
\* secure desktop: nothing of this module runs
DispatchOther ==
  /\ pendingSwitch
  /\ CanDispatch
  /\ ~_isSecureDesktop(desktopName)
  /\ pendingSwitch' = FALSE
  /\ UNCHANGED <<desktopName, currentModifiers, focusObject, objects,
                 speaking, handlers, stack, invCount, trace, lastQuery>>

\* ------------------------------------------- _handleSecureDesktopChange
\* currentModifiers.pop() in place of clear(): one key is dropped
ClearModifiers_dropsOne ==
  /\ At("clear")
  /\ currentModifiers' =
       IF currentModifiers = {} THEN {}
       ELSE currentModifiers \ {CHOOSE k \in currentModifiers : TRUE}
  /\ trace' = Append(trace, Event(Top.inv, "clear", "currentModifiers"))
  /\ stack' = SetTop([Top EXCEPT !.pc = "message"])
  /\ UNCHANGED <<desktopName, pendingSwitch, focusObject, objects, speaking,
                 handlers, invCount, lastQuery>>

\* the announcement made first, the modifiers cleared after it
ClearModifiers_afterMessage ==
  /\ At("clear")
  /\ currentModifiers' = {}
  /\ speaking' = TRUE
  /\ trace' = trace \o <<Event(Top.inv, "message", "NOW"),
                          Event(Top.inv, "clear", "currentModifiers")>>
  /\ stack' = SetTop([Top EXCEPT !.pc = "construct"])
  /\ UNCHANGED <<desktopName, pendingSwitch, focusObject, objects, handlers,
                 invCount, lastQuery>>

\* keyboardHandler.currentModifiers.clear()
ClearModifiers ==
  /\ At("clear")
  /\ currentModifiers' = {}
  /\ trace' = Append(trace, Event(Top.inv, "clear", "currentModifiers"))
  /\ stack' = SetTop([Top EXCEPT !.pc = "message"])
  /\ UNCHANGED <<desktopName, pendingSwitch, focusObject, objects, speaking,
                 handlers, invCount, lastQuery>>

MessagePriority_next == "NEXT"

\* speechPriority=SpeechPriority.NOW
MessagePriority == "NOW"

\* the announcement left out
Message_omitted ==
  /\ At("message")
  /\ stack' = SetTop([Top EXCEPT !.pc = "construct"])
  /\ UNCHANGED <<desktopName, pendingSwitch, currentModifiers, focusObject,
                 objects, speaking, handlers, invCount, trace, lastQuery>>

\* ui.message(_("Secure Desktop"), speechPriority=SpeechPriority.NOW)
Message ==
  /\ At("message")
  /\ trace' = Append(trace, Event(Top.inv, "message", MessagePriority))
  /\ speaking' = TRUE
  /\ stack' = SetTop([Top EXCEPT !.pc = "construct"])
  /\ UNCHANGED <<desktopName, pendingSwitch, currentModifiers, focusObject,
                 objects, handlers, invCount, lastQuery>>

\* the object is built and the broadcast made without installing it
Construct_thenNotify ==
  /\ At("construct")
  /\ objects' = Append(objects, _SecureDesktopNVDAObject(Top.inv))
  /\ stack' = SetTop([Top EXCEPT !.pc = "notify", !.obj = Len(objects) + 1])
  /\ UNCHANGED <<desktopName, pendingSwitch, currentModifiers, focusObject,
                 speaking, handlers, invCount, trace, lastQuery>>

\* one object kept at module level and used again by every invocation
Construct_reuse ==
  /\ At("construct")
  /\ LET old == {o \in 1..Len(objects) : objects[o].kind = "secureDesktop"}
     IN  IF old = {}
         THEN /\ objects' = Append(objects, _SecureDesktopNVDAObject(Top.inv))
              /\ stack' = SetTop([Top EXCEPT !.pc = "setFocus",
                                            !.obj = Len(objects) + 1])
         ELSE /\ objects' = objects
              /\ stack' = SetTop([Top EXCEPT !.pc = "setFocus",
                                            !.obj = CHOOSE o \in old : TRUE])
  /\ UNCHANGED <<desktopName, pendingSwitch, currentModifiers, focusObject,
                 speaking, handlers, invCount, trace, lastQuery>>

\* secureDesktopObject = _SecureDesktopNVDAObject()
Construct ==
  /\ At("construct")
  /\ objects' = Append(objects, _SecureDesktopNVDAObject(Top.inv))
  /\ stack' = SetTop([Top EXCEPT !.pc = "setFocus", !.obj = Len(objects) + 1])
  /\ UNCHANGED <<desktopName, pendingSwitch, currentModifiers, focusObject,
                 speaking, handlers, invCount, trace, lastQuery>>

focusArgument_previous(f) == f.prevFocus

\* the argument of the call: the local secureDesktopObject
focusArgument(f) == f.obj

\* api.setFocusObject(secureDesktopObject)
SetFocusObject ==
  /\ At("setFocus")
  /\ focusObject' = api_setFocusObject(focusArgument(Top)).focus
  /\ trace' = Append(trace, Event(Top.inv, "setFocusObject", focusArgument(Top)))
  /\ stack' = SetTop([Top EXCEPT !.pc = api_setFocusObject(focusArgument(Top)).next])
  /\ UNCHANGED <<desktopName, pendingSwitch, currentModifiers, objects,
                 speaking, handlers, invCount, lastQuery>>

\* event_gainFocus: cancelSpeech()
CancelSpeech ==
  /\ At("cancelSpeech")
  /\ speaking' = FALSE
  /\ trace' = Append(trace, Event(Top.inv, "cancelSpeech", speaking))
  /\ stack' = SetTop([Top EXCEPT !.pc = "sleepMode"])
  /\ UNCHANGED <<desktopName, pendingSwitch, currentModifiers, focusObject,
                 objects, handlers, invCount, lastQuery>>

SleepModeAssigned_none == "SLEEP_NONE"

\* self.SLEEP_FULL
SleepModeAssigned == "SLEEP_FULL"

\* the assignment flips the mode it finds
AssignSleepMode_toggle(o) ==
  [o EXCEPT !.sleepMode = IF o.sleepMode = "SLEEP_FULL" THEN "SLEEP_NONE"
                          ELSE "SLEEP_FULL"]

\* self.sleepMode = self.SLEEP_FULL, whatever self.sleepMode was
AssignSleepMode(o) == [o EXCEPT !.sleepMode = SleepModeAssigned]

\* the object that gains the focus takes every other secure desktop object
\* out of sleep mode
SetSleepMode_exclusive ==
  /\ At("sleepMode")
  /\ objects' =
       [o \in 1..Len(objects) |->
          IF o = Top.obj THEN AssignSleepMode(objects[o])
          ELSE IF objects[o].kind = "secureDesktop"
               THEN [objects[o] EXCEPT !.sleepMode = "SLEEP_NONE"]
               ELSE objects[o]]
  /\ stack' = SetTop([Top EXCEPT !.pc = "notify"])
  /\ UNCHANGED <<desktopName, pendingSwitch, currentModifiers, focusObject,
                 speaking, handlers, invCount, trace, lastQuery>>

\* event_gainFocus: self.sleepMode = self.SLEEP_FULL
SetSleepMode ==
  /\ At("sleepMode")
  /\ objects' = [objects EXCEPT ![Top.obj] = AssignSleepMode(@)]
  /\ stack' = SetTop([Top EXCEPT !.pc = "notify"])
  /\ UNCHANGED <<desktopName, pendingSwitch, currentModifiers, focusObject,
                 speaking, handlers, invCount, trace, lastQuery>>

NotifyPayload_false == FALSE

\* isSecureDesktop=True
NotifyPayload == TRUE

\* the broadcast made twice
Notify_twice ==
  /\ At("notify")
  /\ trace' = Append(trace, Event(Top.inv, "notify", NotifyPayload))
  /\ stack' = SetTop([Top EXCEPT !.pc = "deliver",
                                 !.todo = Action_notify(handlers)
                                            \o Action_notify(handlers)])
  /\ UNCHANGED <<desktopName, pendingSwitch, currentModifiers, focusObject,
                 objects, speaking, handlers, invCount, lastQuery>>

\* the broadcast gets stuck when no handler is registered
Notify_needsObserver ==
  /\ At("notify")
  /\ handlers # <<>>
  /\ trace' = Append(trace, Event(Top.inv, "notify", NotifyPayload))
  /\ stack' = SetTop([Top EXCEPT !.pc = "deliver",
                                 !.todo = Action_notify(handlers)])
  /\ UNCHANGED <<desktopName, pendingSwitch, currentModifiers, focusObject,
                 objects, speaking, handlers, invCount, lastQuery>>

\* post_secureDesktopStateChange.notify(isSecureDesktop=True): the handlers
\* registered now are called one after the other, in registration order
Notify ==
  /\ At("notify")
  /\ trace' = Append(trace, Event(Top.inv, "notify", NotifyPayload))
  /\ stack' = SetTop([Top EXCEPT !.pc = "deliver",
                                 !.todo = Action_notify(handlers)])
  /\ UNCHANGED <<desktopName, pendingSwitch, currentModifiers, focusObject,
                 objects, speaking, handlers, invCount, lastQuery>>

\* notify calls the next handler with the keyword argument
CallObserver ==
  /\ At("deliver")
  /\ Top.todo # <<>>
  /\ trace' = Append(trace, Event(Top.inv, "call", Head(Top.todo)))
  /\ stack' = SetTop([Top EXCEPT !.pc = "inCallback"])
  /\ UNCHANGED <<desktopName, pendingSwitch, currentModifiers, focusObject,
                 objects, speaking, handlers, invCount, lastQuery>>

\* the handler called returns
ObserverReturn ==
  /\ At("inCallback")
  /\ stack' = SetTop([Top EXCEPT !.pc = "deliver", !.todo = Tail(Top.todo)])
  /\ UNCHANGED <<desktopName, pendingSwitch, currentModifiers, focusObject,
                 objects, speaking, handlers, invCount, trace, lastQuery>>

\* notify has called every handler; _handleSecureDesktopChange has completed
Return ==
  /\ At("deliver")
  /\ Top.todo = <<>>
  /\ stack' = SetTop([Top EXCEPT !.pc = "done"])
  /\ UNCHANGED <<desktopName, pendingSwitch, currentModifiers, focusObject,
                 objects, speaking, handlers, invCount, trace, lastQuery>>

\* control is back in the caller: the event loop, or the callback the
\* dispatch had interrupted
Resume ==
  /\ At("done")
  /\ stack' = Pop
  /\ UNCHANGED <<desktopName, pendingSwitch, currentModifiers, focusObject,
                 objects, speaking, handlers, invCount, trace, lastQuery>>

\* -------------------------------------------------- duplicate focus event
\* the record of calls without the duplicate focus event it may end with:
\* of a run of duplicate events the record keeps the last one only
WithoutLastDuplicate ==
  IF trace # <<>> /\ trace[Len(trace)].op = "gainFocusAgain"
  THEN SubSeq(trace, 1, Len(trace) - 1)
  ELSE trace

\* a duplicate focus event: event_gainFocus runs once more on the secure
\* desktop object that has the focus (cancelSpeech(), then the assignment);
\* recorded with whether speech was in progress
GainFocusAgain ==
  /\ Idle
  /\ objects[focusObject].kind = "secureDesktop"
  /\ speaking' = FALSE
  /\ objects' = [objects EXCEPT ![focusObject] = AssignSleepMode(@)]
  /\ trace' = Append(WithoutLastDuplicate,
                     Event(objects[focusObject].madeBy, "gainFocusAgain",
                           speaking))
  /\ UNCHANGED <<desktopName, pendingSwitch, currentModifiers, focusObject,
                 handlers, stack, invCount, lastQuery>>

\* ---------------------------------------------------- failing collaborators
\* an exception raised by a call on lines 86-87 is caught and the handler
\* goes on to the broadcast
OnFailure_swallowed == "notify"

\* lines 86-88 stand in no try block: an exception raised by one of the calls
\* leaves _handleSecureDesktopChange at once
OnFailure == "raised"

\* _SecureDesktopNVDAObject() raises: no object is bound
ConstructFails ==
  /\ At("construct")
  /\ trace' = Append(trace, Event(Top.inv, "raise", "_SecureDesktopNVDAObject"))
  /\ stack' = SetTop([Top EXCEPT !.pc = OnFailure])
  /\ UNCHANGED <<desktopName, pendingSwitch, currentModifiers, focusObject,
                 objects, speaking, handlers, invCount, lastQuery>>

\* the exception is met by putting the modifiers back as they were
SetFocusObjectFails_rollback ==
  /\ At("setFocus")
  /\ currentModifiers' = Top.entryModifiers
  /\ trace' = Append(trace, Event(Top.inv, "raise", "setFocusObject"))
  /\ stack' = SetTop([Top EXCEPT !.pc = OnFailure])
  /\ UNCHANGED <<desktopName, pendingSwitch, focusObject, objects, speaking,
                 handlers, invCount, lastQuery>>

\* api.setFocusObject(secureDesktopObject) raises before it has changed the
\* focus object; nothing the handler has done so far is undone
SetFocusObjectFails ==
  /\ At("setFocus")
  /\ trace' = Append(trace, Event(Top.inv, "raise", "setFocusObject"))
  /\ stack' = SetTop([Top EXCEPT !.pc = OnFailure])
  /\ UNCHANGED <<desktopName, pendingSwitch, currentModifiers, focusObject,
                 objects, speaking, handlers, invCount, lastQuery>>

\* the exception reaches the caller of _handleSecureDesktopChange
Unwind ==
  /\ At("raised")
  /\ stack' = Pop
  /\ UNCHANGED <<desktopName, pendingSwitch, currentModifiers, focusObject,
                 objects, speaking, handlers, invCount, trace, lastQuery>>

\* the exception of the probe is caught and False returned
_isSecureDesktop_probeError_swallowed(e) == [probe |-> e, result |-> FALSE]

\* return _getDesktopName() == "Winlogon" with _getDesktopName() raising e:
\* no try block, the call of _isSecureDesktop raises e
_isSecureDesktop_probeError(e) == [probe |-> e, raised |-> e]

\* some other part of the program calls _isSecureDesktop() and the OS fails
\* to report the desktop name
IsSecureDesktopCallProbeFails ==
  /\ lastQuery' = <<_isSecureDesktop_probeError("EnvironmentQueryError")>>
  /\ UNCHANGED <<desktopName, pendingSwitch, currentModifiers, focusObject,
                 objects, speaking, handlers, stack, invCount, trace>>

\* ------------------------------------------------------------------ Next
Next ==
  \/ DesktopSwitch
  \/ KeyDown
  \/ KeyUp
  \/ Speak
  \/ SpeechDone
  \/ FocusWindow
  \/ Register
  \/ Unregister
  \/ IsSecureDesktopCall
  \/ DispatchSecure
  \/ DispatchOther
  \/ ClearModifiers
  \/ Message
  \/ Construct
  \/ SetFocusObject
  \/ CancelSpeech
  \/ SetSleepMode
  \/ Notify
  \/ CallObserver
  \/ ObserverReturn
  \/ Return
  \/ Resume

Spec == Init /\ [][Next]_vars

\* the program with a probe that can fail
NextProbe ==
  \/ Next
  \/ IsSecureDesktopCallProbeFails

SpecProbe == Init /\ [][NextProbe]_vars

\* the handler with collaborators that can fail and with duplicate focus
\* events
NextEvents ==
  \/ DesktopSwitch
  \/ KeyDown
  \/ KeyUp
  \/ Speak
  \/ SpeechDone
  \/ FocusWindow
  \/ Register
  \/ Unregister
  \/ DispatchSecure
  \/ DispatchOther
  \/ ClearModifiers
  \/ Message
  \/ Construct
  \/ ConstructFails
  \/ SetFocusObject
  \/ SetFocusObjectFails
  \/ CancelSpeech
  \/ SetSleepMode
  \/ Notify
  \/ CallObserver
  \/ ObserverReturn
  \/ Return
  \/ Resume
  \/ Unwind
  \/ GainFocusAgain

SpecEvents == Init /\ [][NextEvents]_vars

TypeOK ==
  /\ desktopName \in DesktopNames
  /\ currentModifiers \subseteq Modifiers
  /\ focusObject \in 1..Len(objects)
  /\ invCount \in 0..MaxInvocations

\* ============================================================ properties
IsTarget(o) == objects[o].kind = "secureDesktop"

\* the calls op made by invocation inv, in order
EventsOf(inv, op) == SelectSeq(trace, LAMBDA e : e.inv = inv /\ e.op = op)

\* the positions of the trace where invocation inv made the call op
Positions(inv, op) ==
  {i \in 1..Len(trace) : trace[i].inv = inv /\ trace[i].op = op}

\* the last call of api.setFocusObject made so far
LastInstall ==
  LET ps == {i \in 1..Len(trace) : trace[i].op = "setFocusObject"}
  IN  trace[CHOOSE i \in ps : \A j \in ps : j <= i]

\* the invocations the trace records: the one the event loop dispatched
\* last and those nested in it
Recorded == {trace[i].inv : i \in 1..Len(trace)}

\* those of them that have completed
Completed ==
  {n \in Recorded :
     \A i \in 1..Len(stack) : stack[i].inv = n => stack[i].pc = "done"}

\* C1 as stated: when an invocation of the handler has completed, the focus
\* object is a Dormancy Focus Target constructed by that very invocation,
\* distinct from the object that was focused when the invocation was called.
C1_Original ==
  At("done") =>
    /\ IsTarget(focusObject)
    /\ objects[focusObject].madeBy = Top.inv
    /\ focusObject # Top.prevFocus

\* C1 amended: when an invocation of the handler has completed, the focus
\* object is a Dormancy Focus Target distinct from the object focused when
\* the invocation was called; it was constructed by that invocation or, when
\* further invocations ran nested inside it, by whichever of them called
\* setFocusObject last; with no nested invocation it is the completing
\* invocation's own target.
C1_FocusIsFreshTarget ==
  At("done") =>
    /\ IsTarget(focusObject)
    /\ focusObject # Top.prevFocus
    /\ objects[focusObject].madeBy >= Top.inv
    /\ objects[focusObject].madeBy = LastInstall.inv
    /\ focusObject = LastInstall.arg
    /\ (invCount = Top.inv => focusObject = Top.obj)

\* the first invocation has completed after a second one ran nested inside
\* it, and the focus object is the second one's target
C1_Witness ==
  /\ At("done")
  /\ Top.inv = 1
  /\ invCount = 2
  /\ IsTarget(focusObject)
  /\ objects[focusObject].madeBy = 2

\* C2: when an invocation of the handler has completed, the focus object's
\* sleepMode is SLEEP_FULL: its event_gainFocus has already run, inside
\* setFocusObject, and nothing more has to happen after the return.
C2_SleepFullOnReturn ==
  At("done") => objects[focusObject].sleepMode = "SLEEP_FULL"

\* an invocation has just completed and the target it built is focused and
\* fully dormant
C2_Witness ==
  /\ At("done")
  /\ focusObject = Top.obj
  /\ IsTarget(focusObject)
  /\ objects[focusObject].sleepMode = "SLEEP_FULL"

\* C3: when an invocation of the handler has completed, currentModifiers is
\* empty, whatever it held when the invocation was called and whatever the
\* focus, the output and the registrations were.
C3_ModifiersEmptyOnReturn ==
  At("done") => currentModifiers = {}

\* an invocation called with several keys down and a handler registered has
\* completed with no modifier left
C3_Witness ==
  /\ At("done")
  /\ Cardinality(Top.entryModifiers) > 1
  /\ Top.entryHandlers # <<>>
  /\ currentModifiers = {}

\* C4: every invocation calls ui.message at most once, with priority NOW,
\* and notify at most once, with isSecureDesktop = TRUE, the call of notify
\* coming after the invocation's call of setFocusObject with its own target;
\* an invocation that has completed has made each call exactly once.
C4_OneMessageOneBroadcast ==
  \A n \in Recorded :
    /\ Cardinality(Positions(n, "message")) <= 1
    /\ Cardinality(Positions(n, "notify")) <= 1
    /\ \A i \in Positions(n, "message") : trace[i].arg = "NOW"
    /\ \A i \in Positions(n, "notify") :
         /\ trace[i].arg = TRUE
         /\ \E j \in Positions(n, "setFocusObject") :
              /\ j < i
              /\ IsTarget(trace[j].arg)
              /\ objects[trace[j].arg].madeBy = n
    /\ n \in Completed =>
         /\ Cardinality(Positions(n, "message")) = 1
         /\ Cardinality(Positions(n, "notify")) = 1

\* an invocation and one nested in it have completed, each with its
\* announcement and broadcast
C4_Witness ==
  /\ Completed = {1, 2}
  /\ \A n \in {1, 2} :
       /\ Cardinality(Positions(n, "message")) = 1
       /\ Cardinality(Positions(n, "notify")) = 1

\* C5: whenever a handler called by notify has control, the focus object is
\* a Dormancy Focus Target whose sleepMode is SLEEP_FULL and currentModifiers
\* is empty.
C5_ObserversSeeDormancy ==
  At("inCallback") =>
    /\ IsTarget(focusObject)
    /\ objects[focusObject].sleepMode = "SLEEP_FULL"
    /\ currentModifiers = {}

\* a handler has control in an invocation that was called with keys down and
\* a window focused
C5_Witness ==
  /\ At("inCallback")
  /\ Top.entryModifiers # {}
  /\ ~IsTarget(Top.prevFocus)
  /\ focusObject = Top.obj
  /\ currentModifiers = {}

\* C6: every call of _isSecureDesktop returns TRUE exactly when the name the
\* probe gave is "Winlogon"; "", "winlogon", "Default" all give FALSE.
C6_TrueIffWinlogon ==
  lastQuery # <<>> =>
    (lastQuery[1].result = TRUE <=> lastQuery[1].name = "Winlogon")

\* the predicate was called on the case variant and returned FALSE
C6_Witness ==
  /\ lastQuery # <<>>
  /\ lastQuery[1].name = "winlogon"
  /\ lastQuery[1].result = FALSE

\* C7: a call of _isSecureDesktop changes nothing but what its caller gets:
\* modifiers, focus object, objects and their sleepMode, speech, the calls
\* recorded (message, cancelSpeech, setFocusObject, notify), registrations,
\* the handler's stack and the pending notification stay as they were; and
\* the value returned is the one for the desktop name at the time of this
\* call, not one kept from an earlier call.
C7_PredicateHasNoEffect ==
  [][lastQuery' # lastQuery =>
       /\ UNCHANGED <<desktopName, pendingSwitch, currentModifiers,
                      focusObject, objects, speaking, handlers, stack,
                      invCount, trace>>
       /\ lastQuery'[1].name = desktopName
       /\ lastQuery'[1].result = (desktopName = "Winlogon")]_vars

\* the predicate returned TRUE on the secure desktop before any notification
\* was dispatched; the handler never ran, and the desktop has changed since,
\* so that a call made now returns FALSE
C7_Witness ==
  /\ lastQuery # <<>>
  /\ lastQuery[1].result = TRUE
  /\ desktopName = "Default"
  /\ invCount = 0
  /\ trace = <<>>
  /\ focusObject = 1

CallsOf(inv) ==
  [i \in 1..Len(EventsOf(inv, "call")) |-> EventsOf(inv, "call")[i].arg]

\* C9: when an invocation has completed, the handlers it has called are
\* exactly those registered when it was called, each once, in the order of
\* their registration.
C9_EachObserverOnceInOrder ==
  At("done") => CallsOf(Top.inv) = Top.entryHandlers

\* obsB was registered before obsA and both were called, in that order
C9_Witness ==
  /\ At("done")
  /\ Top.entryHandlers = <<"obsB", "obsA">>
  /\ CallsOf(Top.inv) = <<"obsB", "obsA">>

\* C10: every call of setFocusObject installs a target built by the calling
\* invocation, no invocation builds two targets, no target is installed
\* twice, and when the outermost invocation has completed (every invocation
\* nested in it has, then) the focus object is the target of the invocation
\* that called setFocusObject last, with sleepMode SLEEP_FULL and no
\* processID.
C10_LastInstallWins ==
  /\ \A i \in 1..Len(trace) :
       trace[i].op = "setFocusObject" =>
         /\ IsTarget(trace[i].arg)
         /\ objects[trace[i].arg].madeBy = trace[i].inv
         /\ \A j \in 1..Len(trace) :
              (trace[j].op = "setFocusObject" /\ trace[j].arg = trace[i].arg)
                => j = i
  /\ \A a, b \in 1..Len(objects) :
       (IsTarget(a) /\ IsTarget(b) /\ objects[a].madeBy = objects[b].madeBy)
         => a = b
  /\ (At("done") /\ Len(stack) = 1) =>
       /\ focusObject = LastInstall.arg
       /\ objects[focusObject] =
            [_SecureDesktopNVDAObject(LastInstall.inv)
               EXCEPT !.sleepMode = "SLEEP_FULL"]

\* the second invocation ran inside the focus-gained callback of the first
\* (it was dispatched before the first one's broadcast); both have completed
\* and the second one's target is focused, the first one's is not
C10_Witness ==
  /\ At("done")
  /\ Len(stack) = 1
  /\ Recorded = {1, 2}
  /\ \E i \in Positions(2, "dispatch") :
       \E j \in Positions(1, "notify") : i < j
  /\ focusObject # Top.obj
  /\ objects[focusObject].madeBy = 2
  /\ objects[Top.obj].sleepMode = "SLEEP_FULL"

\* a step in which event_gainFocus is run again on the focus object
DuplicateStep ==
  /\ trace' # trace
  /\ trace'[Len(trace')].op = "gainFocusAgain"

\* C11: running event_gainFocus again on a secure desktop object that is
\* already in SLEEP_FULL leaves the object, and every other object, as it
\* was; speech is not in progress afterwards, whether or not it was before;
\* the run is recorded as completed, with no exception, and nothing else
\* changes.
C11_GainFocusIdempotent ==
  [][DuplicateStep =>
       /\ objects[focusObject].sleepMode = "SLEEP_FULL"
       /\ objects' = objects
       /\ speaking' = FALSE
       /\ SubSeq(trace', 1, Len(trace') - 1) = WithoutLastDuplicate
       /\ UNCHANGED <<desktopName, pendingSwitch, currentModifiers,
                      focusObject, handlers, stack, invCount, lastQuery>>]_vars

\* event_gainFocus was run again while nothing was being spoken, and the
\* focus object is still the fully dormant secure desktop object
C11_Witness ==
  /\ trace # <<>>
  /\ trace[Len(trace)] = Event(objects[focusObject].madeBy, "gainFocusAgain",
                               FALSE)
  /\ IsTarget(focusObject)
  /\ objects[focusObject].sleepMode = "SLEEP_FULL"
  /\ ~speaking

\* C12: an invocation in which the construction or setFocusObject raised
\* leaves the handler with the exception: it makes no call of notify and
\* calls no handler, raises once, does not call setFocusObject again, and
\* while it is still on the stack it is on its way out to its caller.
C12_FailurePropagatesNoBroadcast ==
  \A i \in 1..Len(trace) :
    trace[i].op = "raise" =>
      /\ Positions(trace[i].inv, "notify") = {}
      /\ Positions(trace[i].inv, "call") = {}
      /\ Positions(trace[i].inv, "raise") = {i}
      /\ \A j \in Positions(trace[i].inv, "setFocusObject") : j < i
      /\ \A k \in 1..Len(stack) :
           stack[k].inv = trace[i].inv => stack[k].pc = "raised"
      /\ objects[focusObject].madeBy # trace[i].inv

\* setFocusObject has raised in an invocation called with a handler
\* registered and a window focused: the window is still focused, not
\* dormant, and the handler has not been called
C12_Witness ==
  /\ At("raised")
  /\ trace[Len(trace)] = Event(Top.inv, "raise", "setFocusObject")
  /\ Top.entryHandlers # <<>>
  /\ focusObject = Top.prevFocus
  /\ ~IsTarget(focusObject)
  /\ objects[focusObject].sleepMode = "SLEEP_NONE"

\* C13: a call of _isSecureDesktop in which the probe raises gives its caller
\* the probe's exception, the same one, and no value; the call changes
\* nothing else.
C13_ProbeErrorPropagates ==
  [][(lastQuery' # lastQuery /\ "probe" \in DOMAIN lastQuery'[1]) =>
       /\ DOMAIN lastQuery'[1] = {"probe", "raised"}
       /\ lastQuery'[1].raised = lastQuery'[1].probe
       /\ UNCHANGED <<desktopName, pendingSwitch, currentModifiers,
                      focusObject, objects, speaking, handlers, stack,
                      invCount, trace>>]_vars

\* the probe failed on the secure desktop while the handler was running, and
\* the caller got EnvironmentQueryError
C13_Witness ==
  /\ lastQuery = <<[probe |-> "EnvironmentQueryError",
                    raised |-> "EnvironmentQueryError"]>>
  /\ desktopName = "Winlogon"
  /\ ~Idle

\* ------------------------------------------------------------------ C14
\* the calls of one invocation up to the broadcast, in the order of the
\* handler's lines
HandlerOrder ==
  <<"dispatch", "clear", "message", "setFocusObject", "cancelSpeech", "notify">>

\* what invocation inv has done so far, its calls of observers left out
StepsOf(inv) ==
  SelectSeq(trace, LAMBDA e : e.inv = inv /\ e.op # "call")

\* the positions of the trace from the first to the last of the calls ops
\* made by invocation inv
Span(inv, ops) ==
  LET ps == {i \in 1..Len(trace) : trace[i].inv = inv /\ trace[i].op \in ops}
  IN  IF ps = {} THEN {}
      ELSE (CHOOSE a \in ps : \A c \in ps : a <= c) ..
           (CHOOSE b \in ps : \A c \in ps : c <= b)

\* the calls steps are the first calls of the handler, in its order
InHandlerOrder(steps) ==
  /\ Len(steps) <= Len(HandlerOrder)
  /\ \A i \in 1..Len(steps) : steps[i].op = HandlerOrder[i]

\* C14 as stated: the four effects of one invocation (clear, announce,
\* install, broadcast) happen in this order and no call of anything else is
\* recorded between the first and the last of them.
C14_Original ==
  \A n \in Recorded :
    /\ InHandlerOrder(StepsOf(n))
    /\ \A i \in Span(n, {"clear", "message", "setFocusObject", "cancelSpeech", "notify"}) :
         trace[i].inv = n

\* C14: within one invocation the effects happen in the order clear,
\* announce, install (with the focus-gained callback's cancellation),
\* broadcast, the observers being called only after the broadcast began;
\* nothing is interleaved from the clearing to the cancellation; what is
\* recorded between the installation and the broadcast, or during the
\* broadcast, is the work of invocations nested in this one.
C14_FixedOrder ==
  \A n \in Recorded :
    /\ InHandlerOrder(StepsOf(n))
    /\ \A i \in Span(n, {"dispatch", "clear", "message", "setFocusObject", "cancelSpeech"}) :
         trace[i].inv = n
    /\ \A i \in Positions(n, "call") : \A j \in Positions(n, "notify") : j < i
    /\ \A i \in Span(n, {"dispatch", "notify", "call"}) : trace[i].inv >= n

C14_Witness ==
  \E n \in Completed : \E m \in Completed :
    /\ n < m
    /\ \A i \in Positions(n, "setFocusObject") : \A j \in Positions(m, "dispatch") :
         \A k \in Positions(n, "notify") : i < j /\ j < k
    /\ Positions(n, "notify") # {} /\ Positions(m, "notify") # {}
    /\ Positions(n, "call") # {}

\* ------------------------------------------------------------------ C15
\* object o is a Dormancy Focus Target in the state focused-dormant
Dormant(o) ==
  /\ o \in 1..Len(objects)
  /\ objects[o].kind = "secureDesktop"
  /\ objects[o].sleepMode = "SLEEP_FULL"

\* C15: no step takes a Dormancy Focus Target out of full-dormant: a target
\* whose sleep mode is SLEEP_FULL is still a target with SLEEP_FULL after
\* every step (a duplicate focus event and the work of later invocations
\* included), so the focus object stops being dormant only by a step that
\* installs a different object as the focus object.
C15_DormancyIsTerminal ==
  [][/\ \A o \in 1..Len(objects) : Dormant(o) => Dormant(o)'
     /\ (Dormant(focusObject) /\ ~Dormant(focusObject)') =>
          focusObject' # focusObject]_vars

C15_Witness ==
  /\ Idle
  /\ Dormant(focusObject)
  /\ \E o \in 1..Len(objects) : o # focusObject /\ Dormant(o)
  /\ trace # <<>> /\ trace[Len(trace)].op = "gainFocusAgain"

\* ------------------------------------------------------------------ C16
\* the statements of _handleSecureDesktopChange and of what it calls
HandlerStep ==
  \/ ClearModifiers
  \/ Message
  \/ Construct
  \/ SetFocusObject
  \/ CancelSpeech
  \/ SetSleepMode
  \/ Notify
  \/ CallObserver
  \/ ObserverReturn
  \/ Return

\* the running invocation has moved on by one statement
HandlerMoved ==
  /\ ~Idle
  /\ Len(stack') = Len(stack)
  /\ stack' # stack

\* C16: whatever the state in which an invocation of the handler finds the
\* program (modifiers held, object focused, speech in progress or not,
\* handlers registered or none), its next statement can always be executed
\* until it has completed, so it runs to completion without raising; and no
\* statement of the handler queries the desktop identity: a step of the
\* handler leaves the record of the last query as it was and records no
\* call other than its own six kinds.
C16_CompletesWithoutProbe ==
  /\ []((~Idle /\ Top.pc # "done") => ENABLED HandlerStep)
  /\ [][HandlerMoved =>
          /\ lastQuery' = lastQuery
          /\ desktopName' = desktopName
          /\ \A i \in 1..Len(trace') :
               trace'[i].op \in {"dispatch", "clear", "message", "setFocusObject",
                                 "cancelSpeech", "notify", "call"}
          /\ \A i \in 1..Len(trace') :
               i > Len(trace) => trace'[i].op # "dispatch"]_vars

C16_Witness ==
  /\ At("done")
  /\ Top.entryModifiers = Modifiers
  /\ Top.entryHandlers = <<>>
  /\ IsTarget(Top.prevFocus)
  /\ Positions(Top.inv, "notify") # {}
  /\ lastQuery # <<>>

\* ------------------------------------------------------------------ C17
\* the Dormancy Focus Targets that exist
Targets == {o \in 1..Len(objects) : IsTarget(o)}

\* C17: every Dormancy Focus Target that exists, installed or not, has the
\* process identifier None; no two targets were made by the same invocation
\* and every invocation that is past its construction has one of its own;
\* every installation recorded installs the target made by the invocation
\* that calls it, never the target of another invocation.
C17_FreshTargetNoProcess ==
  /\ \A o \in Targets : objects[o].processID = None
  /\ \A o, q \in Targets : objects[o].madeBy = objects[q].madeBy => o = q
  /\ \A k \in 1..Len(stack) :
       stack[k].pc \notin {"clear", "message", "construct"} =>
         /\ stack[k].obj \in Targets
         /\ objects[stack[k].obj].madeBy = stack[k].inv
  /\ \A i \in 1..Len(trace) :
       trace[i].op = "setFocusObject" =>
         /\ trace[i].arg \in Targets
         /\ objects[trace[i].arg].madeBy = trace[i].inv

C17_Witness ==
  /\ Idle
  /\ Cardinality(Targets) = 2
  /\ \A o \in Targets : objects[o].processID = None /\ objects[o].sleepMode = "SLEEP_FULL"
  /\ focusObject \in Targets
  /\ Len(EventsOf(objects[focusObject].madeBy, "setFocusObject")) = 1
  /\ \E o \in Targets : o # focusObject

\* ------------------------------------------------------------------ C18
\* C18: every cancellation made by the focus-gained callback during an
\* invocation comes after the announcement of that same invocation, which
\* is emitted exactly once before it, and no other announcement is emitted
\* between the two: speech found in progress by the cancellation is the
\* invocation's own announcement.
C18_CancelAfterOwnMessage ==
  \A i \in 1..Len(trace) :
    trace[i].op = "cancelSpeech" =>
      /\ Cardinality(Positions(trace[i].inv, "message")) = 1
      /\ \A j \in Positions(trace[i].inv, "message") :
           /\ j < i
           /\ trace[j].arg = "NOW"
           /\ \A k \in (j + 1)..(i - 1) : trace[k].op # "message"

C18_Witness ==
  /\ At("sleepMode")
  /\ Len(stack) = 2
  /\ trace[Len(trace)] = Event(Top.inv, "cancelSpeech", TRUE)
  /\ ~speaking
  /\ Positions(Top.inv, "message") # {}

\* ------------------------------------------------------------------ C19
\* C19: when the installation of the focus object fails, the invocation
\* leaves with the exception while the modifiers it cleared are still
\* cleared and the announcement it emitted is still emitted and in
\* progress: both calls are recorded before the failure and neither effect
\* is undone.
C19_NoRollbackOnFailure ==
  (At("raised") /\ trace[Len(trace)] = Event(Top.inv, "raise", "setFocusObject")) =>
    /\ currentModifiers = {}
    /\ speaking
    /\ Len(EventsOf(Top.inv, "clear")) = 1
    /\ Len(EventsOf(Top.inv, "message")) = 1
    /\ \A i \in Positions(Top.inv, "clear") : \A j \in Positions(Top.inv, "message") :
         i < j /\ j < Len(trace)
    /\ Positions(Top.inv, "cancelSpeech") = {}

C19_Witness ==
  /\ At("raised")
  /\ trace[Len(trace)] = Event(Top.inv, "raise", "setFocusObject")
  /\ Top.entryModifiers = Modifiers
  /\ currentModifiers = {}
  /\ speaking
  /\ Len(EventsOf(Top.inv, "message")) = 1

====
